---- MODULE Spec2Model ----
(***************************************************************************)
(* State-machine model of the Dynamics 365 FO client (class Dynamics365FO) *)
(* and of the tool / HTTP handlers built on it.                            *)
(*                                                                         *)
(* One step of the model is one run of the event loop: from an external    *)
(* event (a call arriving, the identity provider answering, the backend    *)
(* answering) up to the next await on an external event.                   *)
(*                                                                         *)
(* Time is counted in minutes.  JS null/undefined is the empty sequence    *)
(* Null, a present value v is <<v>>.                                       *)
(***************************************************************************)
EXTENDS Integers, Sequences, FiniteSets, TLC

\* ------------------------------------------------------------------ bounds
MaxTime == 8
MaxExchanges == 3
MaxPages == 3
MaxIdLen == 3
MaxJunk == 3
MaxSlashes == 2

\* 3 * 60 * 1000 ms, in minutes
RenewalSkew == 3

Null == <<>>
Some(v) == <<v>>

VARIABLES
  now,              \* Date.now(), minutes
  accessToken,      \* this.accessToken: Null or <<token id>>
  tokenExpiration,  \* this.tokenExpiration: Null or <<minutes>>
  exchanges,        \* acquireTokenByClientCredential calls issued so far
  lastExpiresOn,    \* history: expiresOn of the last successful exchange
  th,               \* the in-flight list calls (1: CustomersV3, 2: VendorsV3)
  tool,             \* the handler being served
  fx,               \* the filter construction of a lookup by identifier
  qb,               \* a call of buildODataQuery, direct or by a list call
  rq,               \* a client from its construction to its first request
  backend           \* the backend's pages, by URL

vars == <<now, accessToken, tokenExpiration, exchanges, lastExpiresOn, th, tool,
          fx, qb, rq, backend>>

Threads == {1, 2}
Other(i) == 3 - i

\* --------------------------------------------------------- JSON payloads
\* shape "null"     : JSON null, or no body
\* shape "array"    : a bare array of records
\* shape "envelope" : an object whose "value" is an array; the two link
\*                    spellings are 0 (absent) or the id of an absolute URL
\* shape "object"   : any other object; obj is "none" for {} and otherwise
\*                    names the object
\* shape "scalar"   : a number, string or boolean
Payload(shape, items, nextLink, nextlink, obj) ==
  [shape |-> shape, items |-> items, nextLink |-> nextLink,
   nextlink |-> nextlink, obj |-> obj]

NullPayload == Payload("null", <<>>, 0, 0, "none")
Envelope(items) == Payload("envelope", items, 0, 0, "none")

Recs(i) == IF i = 1 THEN {"c1", "c2"} ELSE {"v1", "v2"}

ItemSeqs(i) ==
  IF i = 1 THEN {<<>>, <<"c1">>, <<"c1", "c2">>, <<"c2", "c1">>}
  ELSE {<<>>, <<"v1">>, <<"v1", "v2">>, <<"v2", "v1">>}

PagePayloads(i) ==
  {Payload("array", s, 0, 0, "none") : s \in ItemSeqs(i)}
  \cup {Payload("envelope", s, u, l, "none") :
          s \in ItemSeqs(i), u \in {0, 1}, l \in {0, 2}}

OtherPayloads(i) ==
  {NullPayload, Payload("scalar", <<>>, 0, 0, "none"),
   Payload("object", <<>>, 0, 0, "none")}
  \cup {Payload("object", <<>>, 0, 0, r) : r \in Recs(i)}
  \cup {Payload("object", <<>>, 1, 0, r) : r \in Recs(i)}

\* ------------------------------------------------------- HTTP responses
\* A body is text.  syntax: it is empty, parses as JSON (to json), or is
\* anything else; html: it is an HTML document; doctype: it starts with
\* "<!DOCTYPE html>"; htmlTag: it contains "<html" somewhere.
Body(syntax, html, doctype, htmlTag, json) ==
  [syntax |-> syntax, html |-> html, doctype |-> doctype,
   htmlTag |-> htmlTag, json |-> json]

EmptyBody == Body("empty", FALSE, FALSE, FALSE, NullPayload)
JsonBody(p) == Body("json", FALSE, FALSE, FALSE, p)
\* valid JSON in which some string value contains "<html"
JsonBodyHtmlText(p) == Body("json", FALSE, FALSE, TRUE, p)
\* HTML documents: with the marker and the tag, without the marker, and
\* with marker and tag in another letter case
HtmlDocBody == Body("text", TRUE, TRUE, TRUE, NullPayload)
HtmlNoDoctypeBody == Body("text", TRUE, FALSE, TRUE, NullPayload)
HtmlOtherCaseBody == Body("text", TRUE, FALSE, FALSE, NullPayload)
GarbageBody == Body("text", FALSE, FALSE, FALSE, NullPayload)

\* net "fail": fetch() rejects; readOk FALSE: response.text() rejects
Response(net, status, statusText, readOk, body) ==
  [net |-> net, status |-> status, statusText |-> statusText,
   readOk |-> readOk, body |-> body]

NoResp == Response("none", 0, "", TRUE, EmptyBody)
NetworkFailure == Response("fail", 0, "", TRUE, EmptyBody)
OkJson(p) == Response("ok", 200, "OK", TRUE, JsonBody(p))

\* response.ok
ResponseOk(r) == r.status >= 200 /\ r.status <= 299

\* ------------------------------------------------------ errors, outcomes
Err(type, status, statusText, body) ==
  [type |-> type, status |-> status, statusText |-> statusText, body |-> body]
NoErr == Err("none", 0, "", Null)

Return(p) == [kind |-> "return", value |-> p, err |-> NoErr]
Throw(e) == [kind |-> "throw", value |-> NullPayload, err |-> e]
NoOut == [kind |-> "none", value |-> NullPayload, err |-> NoErr]

\* ------------------------------------------------- identity provider
MsalResp(kind, hasToken, expiresOn) ==
  [kind |-> kind, hasToken |-> hasToken, expiresOn |-> expiresOn]
NoMsal == MsalResp("none", FALSE, Null)

\* the failures: the exchange throws, answers null, answers without token
MsalFailures ==
  {MsalResp("throw", FALSE, Null), MsalResp("null", FALSE, Null)}
  \cup {MsalResp("resp", FALSE, e) : e \in {Null, Some(now + 10)}}

ExpiresIn == {3, 5, 10}

MsalSuccesses ==
  {MsalResp("resp", TRUE, Some(now + d)) : d \in ExpiresIn}
  \cup {MsalResp("resp", TRUE, Null)}

\* ------------------------------------------------------------ authenticate
\* the cache test of authenticate():
\*   this.tokenExpiration && Date.now() < this.tokenExpiration
CacheValid_UpToExpiry(exp, t) == exp # Null /\ exp[1] # 0 /\ t <= exp[1]

CacheValid(exp, t) == exp # Null /\ exp[1] # 0 /\ t < exp[1]

\* what authenticate() does with the identity provider's answer r to the
\* exchange that mints token xid, the cache holding (tok, exp)
AuthResult_ClearsOnFailure(r, xid, tok, exp) ==
  IF r.kind = "resp" /\ r.hasToken
  THEN [ok |-> TRUE,
        accessToken |-> Some(xid),
        tokenExpiration |-> IF r.expiresOn # Null
                            THEN Some(r.expiresOn[1] - RenewalSkew)
                            ELSE exp]
  ELSE [ok |-> FALSE, accessToken |-> Null, tokenExpiration |-> Null]

\* a credential already cached is kept and handed to the caller
AuthResult_KeepsCachedCredential(r, xid, tok, exp) ==
  IF r.kind = "resp" /\ r.hasToken
  THEN IF tok # Null /\ exp # Null
       THEN [ok |-> TRUE, accessToken |-> tok, tokenExpiration |-> exp]
       ELSE [ok |-> TRUE,
             accessToken |-> Some(xid),
             tokenExpiration |-> IF r.expiresOn # Null
                                 THEN Some(r.expiresOn[1] - RenewalSkew)
                                 ELSE exp]
  ELSE [ok |-> FALSE, accessToken |-> tok, tokenExpiration |-> exp]

AuthResult(r, xid, tok, exp) ==
  IF r.kind = "resp" /\ r.hasToken
  THEN [ok |-> TRUE,
        accessToken |-> Some(xid),
        tokenExpiration |-> IF r.expiresOn # Null
                            THEN Some(r.expiresOn[1] - RenewalSkew)
                            ELSE exp]
  ELSE [ok |-> FALSE, accessToken |-> tok, tokenExpiration |-> exp]

AuthError == Err("auth", 0, "", Null)

\* ---------------------------------------------------------- makeApiRequest
\* const text = await response.text().catch(() => null)
TextOf(r) == IF r.readOk THEN Some(r.body) ELSE Null

\* !text
TextFalsy(text) == text = Null \/ text[1].syntax = "empty"

\* text.startsWith("<!DOCTYPE html>") || text.includes("<html")
LooksLikeHtml(b) == b.doctype \/ b.htmlTag

MakeApiResult_NullOnParseFailure(r) ==
  IF r.net = "fail" THEN Throw(Err("network", 0, "", Null))
  ELSE LET text == TextOf(r) IN
    IF ~ResponseOk(r) THEN Throw(Err("http", r.status, r.statusText, text))
    ELSE IF TextFalsy(text) THEN Return(NullPayload)
    ELSE IF text[1].doctype THEN Throw(Err("payload", 0, "", text))
    ELSE IF text[1].syntax = "json" THEN Return(text[1].json)
    ELSE Return(NullPayload)

MakeApiResult_EmptyBodyBeforeStatus(r) ==
  IF r.net = "fail" THEN Throw(Err("network", 0, "", Null))
  ELSE LET text == TextOf(r) IN
    IF TextFalsy(text) THEN Return(NullPayload)
    ELSE IF ~ResponseOk(r) THEN Throw(Err("http", r.status, r.statusText, text))
    ELSE IF LooksLikeHtml(text[1]) THEN Throw(Err("payload", 0, "", text))
    ELSE IF text[1].syntax = "json" THEN Return(text[1].json)
    ELSE Throw(Err("payload", 0, "", text))

\* without the test "if (!text) return null": "" goes to JSON.parse
MakeApiResult_EmptyBodyParsed(r) ==
  IF r.net = "fail" THEN Throw(Err("network", 0, "", Null))
  ELSE LET text == TextOf(r) IN
    IF ~ResponseOk(r) THEN Throw(Err("http", r.status, r.statusText, text))
    ELSE IF text = Null THEN Return(NullPayload)
    ELSE IF LooksLikeHtml(text[1]) THEN Throw(Err("payload", 0, "", text))
    ELSE IF text[1].syntax = "json" THEN Return(text[1].json)
    ELSE Throw(Err("payload", 0, "", text))

\* the outcome of makeApiRequest once fetch() has settled with r
MakeApiResult(r) ==
  IF r.net = "fail" THEN Throw(Err("network", 0, "", Null))
  ELSE LET text == TextOf(r) IN
    IF ~ResponseOk(r) THEN Throw(Err("http", r.status, r.statusText, text))
    ELSE IF TextFalsy(text) THEN Return(NullPayload)
    ELSE IF LooksLikeHtml(text[1]) THEN Throw(Err("payload", 0, "", text))
    ELSE IF text[1].syntax = "json" THEN Return(text[1].json)
    ELSE Throw(Err("payload", 0, "", text))

\* ------------------------------------------------ getCustomers / getVendors
\* Array.isArray(resp?.value) || Array.isArray(resp)
IsPage(p) == p.shape = "envelope" \/ p.shape = "array"

\* only "@odata.nextLink" is read
NextLinkOf_CamelCaseOnly(p) ==
  IF p.shape = "envelope" THEN p.nextLink ELSE 0

\* resp["@odata.nextLink"] || resp["@odata.nextlink"]
NextLinkOf(p) ==
  IF p.shape = "envelope"
  THEN IF p.nextLink # 0 THEN p.nextLink ELSE p.nextlink
  ELSE 0

IdleThread ==
  [pc |-> "idle", fetchAll |-> FALSE, first |-> TRUE, results |-> <<>>,
   token |-> Null, url |-> 0, xid |-> 0, nreq |-> 0,
   rex |-> 0, cw |-> "none",
   msal |-> NoMsal, resp |-> NoResp, fetched |-> <<>>, urls |-> <<>>,
   out |-> NoOut]

Done(t, o) == [t EXCEPT !.pc = "done", !.out = o]

\* the loop gives up after two requests
FollowLink_AtMostTwoHops(t, nl) ==
  IF nl # 0 /\ t.nreq < 2 THEN [t EXCEPT !.pc = "next", !.url = nl]
  ELSE Done(t, Return(Envelope(t.results)))

\* after a page: follow the link or return the accumulated records
FollowLink(t, nl) ==
  IF nl # 0 THEN [t EXCEPT !.pc = "next", !.url = nl]
  ELSE Done(t, Return(Envelope(t.results)))

AppendPage_Overwrites(t, p) == [t EXCEPT !.results = p.items, !.first = FALSE]

\* results.push(...resp.value) / results.push(...resp)
AppendPage(t, p) == [t EXCEPT !.results = @ \o p.items, !.first = FALSE]

\* a failed request is made once more
ListStep_RetriesOnce(t, res) ==
  IF res.kind = "throw"
  THEN IF t.nreq < 2 THEN [t EXCEPT !.pc = "next"] ELSE Done(t, res)
  ELSE LET p == res.value
           t1 == [t EXCEPT !.fetched = Append(@, p)] IN
    IF ~t.fetchAll THEN Done(t1, Return(p))
    ELSE IF IsPage(p) THEN FollowLink(AppendPage(t1, p), NextLinkOf(p))
    ELSE IF t.first THEN Done(t1, Return(p))
    ELSE Done(t1, Return(Envelope(t1.results)))

\* a first payload that is no page is wrapped like the pages
ListStep_WrapsFirstPayload(t, res) ==
  IF res.kind = "throw" THEN Done(t, res)
  ELSE LET p == res.value
           t1 == [t EXCEPT !.fetched = Append(@, p)] IN
    IF ~t.fetchAll THEN Done(t1, Return(p))
    ELSE IF IsPage(p) THEN FollowLink(AppendPage(t1, p), NextLinkOf(p))
    ELSE Done(t1, Return(Envelope(t1.results)))

\* a later payload that is no page fails the call
ListStep_FailsOnMalformedPage(t, res) ==
  IF res.kind = "throw" THEN Done(t, res)
  ELSE LET p == res.value
           t1 == [t EXCEPT !.fetched = Append(@, p)] IN
    IF ~t.fetchAll THEN Done(t1, Return(p))
    ELSE IF IsPage(p) THEN FollowLink(AppendPage(t1, p), NextLinkOf(p))
    ELSE IF t.first THEN Done(t1, Return(p))
    ELSE Done(t1, Throw(Err("payload", 0, "", Null)))

\* a failure after the first page ends the loop with the records so far
ListStep_PartialOnFailure(t, res) ==
  IF res.kind = "throw"
  THEN IF t.fetchAll /\ ~t.first THEN Done(t, Return(Envelope(t.results)))
       ELSE Done(t, res)
  ELSE LET p == res.value
           t1 == [t EXCEPT !.fetched = Append(@, p)] IN
    IF ~t.fetchAll THEN Done(t1, Return(p))
    ELSE IF IsPage(p) THEN FollowLink(AppendPage(t1, p), NextLinkOf(p))
    ELSE IF t.first THEN Done(t1, Return(p))
    ELSE Done(t1, Return(Envelope(t1.results)))

\* the list call t once the makeApiRequest it awaits has settled with res
ListStep(t, res) ==
  IF res.kind = "throw" THEN Done(t, res)
  ELSE LET p == res.value
           t1 == [t EXCEPT !.fetched = Append(@, p)] IN
    IF ~t.fetchAll THEN Done(t1, Return(p))
    ELSE IF IsPage(p) THEN FollowLink(AppendPage(t1, p), NextLinkOf(p))
    ELSE IF t.first THEN Done(t1, Return(p))
    ELSE Done(t1, Return(Envelope(t1.results)))

\* where a token request made now stands with respect to the expiry the
\* last successful exchange returned (history, not read by the program)
ClaimWindow ==
  IF lastExpiresOn # Null /\ now < lastExpiresOn[1] - RenewalSkew THEN "inside"
  ELSE IF accessToken = Null \/ lastExpiresOn # Null THEN "outside"
  ELSE "other"

\* a continuation request reuses the token of the request before it
Issue_ChecksFirstRequestOnly(t, u, k) ==
  IF CacheValid(tokenExpiration, now) \/ (t.nreq >= 1 /\ t.token # Null)
  THEN [t EXCEPT !.pc = "fetch", !.url = u,
                 !.token = IF t.nreq >= 1 /\ t.token # Null THEN t.token
                           ELSE accessToken,
                 !.nreq = @ + 1, !.urls = Append(@, u),
                 !.rex = 0, !.cw = ClaimWindow]
  ELSE [t EXCEPT !.pc = "exch", !.url = u, !.xid = k + 1, !.token = Null,
                 !.rex = 1, !.cw = ClaimWindow]

\* makeApiRequest(u) up to its first await on the outside world:
\* authenticate() returns the cached token and fetch() is issued, or the
\* token exchange is issued; k is the number of exchanges issued before
Issue(t, u, k) ==
  IF CacheValid(tokenExpiration, now)
  THEN [t EXCEPT !.pc = "fetch", !.url = u, !.token = accessToken,
                 !.nreq = @ + 1, !.urls = Append(@, u),
                 !.rex = 0, !.cw = ClaimWindow]
  ELSE [t EXCEPT !.pc = "exch", !.url = u, !.xid = k + 1, !.token = Null,
                 !.rex = 1, !.cw = ClaimWindow]

IssueCost == IF CacheValid(tokenExpiration, now) THEN 0 ELSE 1

\* a new list call
StartThread(fetchAll) == [IdleThread EXCEPT !.fetchAll = fetchAll]

\* ------------------------------------------------------ normalizeSingleRecord
NormalizeSingleRecord_ArraysOnly(p) ==
  IF p.shape = "array" /\ Len(p.items) > 0 THEN p.items[1] ELSE "none"

\* the record a payload stands for, "none" for null
NormalizeSingleRecord(p) ==
  IF p.shape = "null" THEN "none"
  ELSE IF p.shape = "array" \/ p.shape = "envelope"
       THEN IF Len(p.items) > 0 THEN p.items[1] ELSE "none"
  ELSE IF p.shape = "object" THEN p.obj
  ELSE "none"

\* ------------------------------------------------------------- the handlers
\* name "list"     : getCustomers / getVendors called with list options
\* name "accounts" : tool fetch-accounts with an accountNum
\* name "entity"   : tool fetch-entity-by-id
\* name "route"    : GET /customers/:account, GET /vendors/:vendorAccount
ToolOut(tag, customer, vendor, value, err) ==
  [tag |-> tag, customer |-> customer, vendor |-> vendor,
   value |-> value, err |-> err]
NoToolOut == ToolOut("none", "none", "none", NullPayload, NoErr)

NoTool ==
  [name |-> "none", input |-> Null, entityType |-> "auto", stage |-> "idle",
   log |-> <<>>, out |-> NoToolOut]

\* { type: "customer", record } / { type: "vendor", record }
Tagged(i, rec) ==
  IF i = 1 THEN ToolOut("customer", rec, "none", NullPayload, NoErr)
  ELSE ToolOut("vendor", "none", rec, NullPayload, NoErr)

NotFoundOut == ToolOut("notfound", "none", "none", NullPayload, NoErr)
ErrorOut(e) == ToolOut("error", "none", "none", NullPayload, e)

Preferred_CustomerAlways(entityType) == 1

\* only "customer" looks the customer up first
Preferred_AutoVendorFirst(entityType) ==
  IF entityType = "customer" THEN 1 ELSE 2

\* input?.entityType ?? "auto", the input's entityType absent or present
EntityTypeOf(given) == IF given = Null THEN "auto" ELSE given[1]

\* the kind looked up first by fetch-accounts
Preferred(entityType) == IF entityType = "vendor" THEN 2 ELSE 1

\* custResp.status === "fulfilled" ? normalizeSingleRecord(custResp.value) : null
Settled(o) ==
  IF o.kind = "return" THEN NormalizeSingleRecord(o.value) ELSE "none"

JoinOut_Swapped(cust, vend) ==
  IF cust # "none" /\ vend # "none"
  THEN ToolOut("both", vend, cust, NullPayload, NoErr)
  ELSE IF cust # "none" THEN Tagged(1, cust)
  ELSE IF vend # "none" THEN Tagged(2, vend)
  ELSE NotFoundOut

\* the result of fetch-entity-by-id from the two normalized records
JoinOut(cust, vend) ==
  IF cust # "none" /\ vend # "none"
  THEN ToolOut("both", cust, vend, NullPayload, NoErr)
  ELSE IF cust # "none" THEN Tagged(1, cust)
  ELSE IF vend # "none" THEN Tagged(2, vend)
  ELSE NotFoundOut

\* Promise.all in place of Promise.allSettled
JoinResult_PromiseAll(c, v) ==
  IF c.kind = "throw" THEN ErrorOut(c.err)
  ELSE IF v.kind = "throw" THEN ErrorOut(v.err)
  ELSE JoinOut(Settled(c), Settled(v))

\* await Promise.allSettled([customer lookup, vendor lookup]) and the rest
\* of the fetch-entity-by-id handler
JoinResult(c, v) == JoinOut(Settled(c), Settled(v))

\* the result of a handler that awaits the single lookup i, settled with o
\* (null when the handler goes on to the fallback lookup)
SequentialOut(i, o, isPreferred) ==
  IF o.kind = "throw" THEN Some(ErrorOut(o.err))
  ELSE LET rec == NormalizeSingleRecord(o.value) IN
    IF rec # "none" THEN Some(Tagged(i, rec))
    ELSE IF isPreferred THEN Null
    ELSE Some(NotFoundOut)

Ev(what, i) == <<what, i>>

\* the model stops issuing exchanges at MaxExchanges
CanIssue(n) == exchanges + n * IssueCost <= MaxExchanges

\* the join resumes at the first lookup to settle
AllSettled_First(i) == TRUE

\* Promise.allSettled resumes the handler when lookup i settles only if
\* the other lookup has settled already
AllSettled(i) == th[Other(i)].pc = "done"

\* the list call i has returned or thrown (t.pc = "done"): the handler's
\* continuation, in the same run of the event loop
HandlerStep(i, t) ==
  LET log1 == Append(tool.log, Ev("end", i)) IN
  CASE tool.name = "list" ->
         /\ th' = [th EXCEPT ![i] = t]
         /\ tool' = [tool EXCEPT !.stage = "done", !.log = log1,
                        !.out = IF t.out.kind = "throw" THEN ErrorOut(t.out.err)
                                ELSE ToolOut("payload", "none", "none",
                                             t.out.value, NoErr)]
         /\ UNCHANGED exchanges
    [] tool.name = "route" ->
         LET r == SequentialOut(i, t.out, FALSE) IN
         /\ th' = [th EXCEPT ![i] = t]
         /\ tool' = [tool EXCEPT !.stage = "done", !.log = log1, !.out = r[1]]
         /\ UNCHANGED exchanges
    [] tool.name = "accounts" ->
         LET pref == Preferred(tool.entityType)
             r == SequentialOut(i, t.out, i = pref) IN
         IF r # Null
         THEN /\ th' = [th EXCEPT ![i] = t]
              /\ tool' = [tool EXCEPT !.stage = "done", !.log = log1,
                                      !.out = r[1]]
              /\ UNCHANGED exchanges
         ELSE /\ CanIssue(1)
              /\ th' = [th EXCEPT ![i] = t,
                          ![Other(i)] = Issue(StartThread(FALSE), 0, exchanges)]
              /\ exchanges' = exchanges + IssueCost
              /\ tool' = [tool EXCEPT !.stage = "second",
                            !.log = Append(log1, Ev("start", Other(i)))]
    [] tool.name = "entity" ->
         /\ th' = [th EXCEPT ![i] = t]
         /\ UNCHANGED exchanges
         /\ IF AllSettled(i)
            THEN LET c == IF i = 1 THEN t.out ELSE th[1].out
                     v == IF i = 2 THEN t.out ELSE th[2].out IN
                 tool' = [tool EXCEPT !.stage = "done", !.log = log1,
                            !.out = JoinResult(c, v)]
            ELSE tool' = [tool EXCEPT !.log = log1]

\* the list call i goes on: to its next page, or to its caller
Settle(i, t) ==
  IF t.pc = "next"
  THEN /\ CanIssue(1)
       /\ th' = [th EXCEPT ![i] = Issue(t, t.url, exchanges)]
       /\ exchanges' = exchanges + IssueCost
       /\ UNCHANGED tool
  ELSE HandlerStep(i, t)

\* ------------------------------------------------- lookups by identifier
\* Text is a sequence of pieces: single characters, or words of letters
\* and digits.
QUOTE == "'"

IdChars == {"a", QUOTE}

Texts(n) == UNION {[1..k -> IdChars] : k \in 0..n}

\* replace() without the g flag
EscapeQuotes_FirstOnly(s) ==
  IF \E k \in 1..Len(s) : s[k] = QUOTE
  THEN LET k == CHOOSE j \in 1..Len(s) :
                  s[j] = QUOTE /\ \A m \in 1..(j - 1) : s[m] # QUOTE IN
       SubSeq(s, 1, k) \o <<QUOTE>> \o SubSeq(s, k + 1, Len(s))
  ELSE s

\* accountNum.replace(/'/g, "''")
RECURSIVE EscapeQuotes(_)
EscapeQuotes(s) ==
  IF s = <<>> THEN <<>>
  ELSE (IF Head(s) = QUOTE THEN <<QUOTE, QUOTE>> ELSE <<Head(s)>>)
       \o EscapeQuotes(Tail(s))

IdField(i) == IF i = 1 THEN "CustomerAccount" ELSE "VendorAccountNumber"

\* `CustomerAccount eq '${safe}'`
FilterFor(i, id) ==
  <<IdField(i), " ", "eq", " ", QUOTE>> \o EscapeQuotes(id) \o <<QUOTE>>

\* the options a caller may hand in, each absent (Null) or present; filter
\* and top are not in the declared option type of the lookups but a caller
\* can still pass them
Options(filter, select, top, orderby, crossCompany) ==
  [filter |-> filter, select |-> select, top |-> top, orderby |-> orderby,
   crossCompany |-> crossCompany]

NoOptions == Options(Null, Null, Null, Null, Null)

CallerOptions ==
  {Options(f, s, t, Null, c) :
     f \in {Null, Some(<<"Name", " ", "eq", " ", QUOTE, "x", QUOTE>>)},
     s \in {Null, Some(<<"Name">>)},
     t \in {Null, Some(5)},
     c \in {Null, Some(FALSE), Some(TRUE)}}

\* { ...options, filter, top: 1 }
LookupOptions(i, id, options) ==
  [options EXCEPT !.filter = Some(FilterFor(i, id)), !.top = Some(1)]

\* encodeURIComponent on the pieces of a text: letters, digits and
\* - _ . ! ~ * ' ( ) stay, every other character is escaped
EncodePiece(c) ==
  CASE c = " " -> "%20"
    [] c = "," -> "%2C"
    [] c = "&" -> "%26"
    [] c = "=" -> "%3D"
    [] c = "$" -> "%24"
    [] c = "?" -> "%3F"
    [] c = "/" -> "%2F"
    [] OTHER -> c

EncodeURIComponent(s) == [k \in 1..Len(s) |-> EncodePiece(s[k])]

\* select.join(",")
RECURSIVE JoinComma(_)
JoinComma(fields) ==
  IF fields = <<>> THEN <<>>
  ELSE IF Len(fields) = 1 THEN <<fields[1]>>
  ELSE <<fields[1], ",">> \o JoinComma(Tail(fields))

Clause(k, v) == [key |-> k, value |-> v]

\* `$top=${opts.top}`: the number as decimal text (one digit here)
DecimalDigits == <<"0", "1", "2", "3", "4", "5", "6", "7", "8", "9">>

NumText(n) ==
  IF n < 0 THEN <<"-", DecimalDigits[1 - n]>> ELSE <<DecimalDigits[n + 1]>>

\* $top pushed before $select
BuildODataQuery_TopBeforeSelect(filter, select, top, orderby, extra) ==
  (IF filter # Null /\ filter[1] # <<>>
   THEN <<Clause("$filter", EncodeURIComponent(filter[1]))>> ELSE <<>>)
  \o (IF top # Null /\ top[1] # 0 /\ top[1] > 0
      THEN <<Clause("$top", NumText(top[1]))>> ELSE <<>>)
  \o (IF select # Null /\ Len(select[1]) > 0
      THEN <<Clause("$select", EncodeURIComponent(JoinComma(select[1])))>>
      ELSE <<>>)
  \o (IF orderby # Null /\ orderby[1] # <<>>
      THEN <<Clause("$orderby", EncodeURIComponent(orderby[1]))>> ELSE <<>>)
  \o [k \in 1..Len(extra) |->
        Clause(extra[k].key, EncodeURIComponent(extra[k].value))]

\* if (opts?.top !== undefined) in place of if (opts?.top && opts.top > 0)
BuildODataQuery_TopWhenPresent(filter, select, top, orderby, extra) ==
  (IF filter # Null /\ filter[1] # <<>>
   THEN <<Clause("$filter", EncodeURIComponent(filter[1]))>> ELSE <<>>)
  \o (IF select # Null /\ Len(select[1]) > 0
      THEN <<Clause("$select", EncodeURIComponent(JoinComma(select[1])))>>
      ELSE <<>>)
  \o (IF top # Null
      THEN <<Clause("$top", NumText(top[1]))>> ELSE <<>>)
  \o (IF orderby # Null /\ orderby[1] # <<>>
      THEN <<Clause("$orderby", EncodeURIComponent(orderby[1]))>> ELSE <<>>)
  \o [k \in 1..Len(extra) |->
        Clause(extra[k].key, EncodeURIComponent(extra[k].value))]

\* buildODataQuery up to the join: the array parts; extra is the sequence
\* Object.entries gives for the extra object
BuildODataQuery(filter, select, top, orderby, extra) ==
  (IF filter # Null /\ filter[1] # <<>>
   THEN <<Clause("$filter", EncodeURIComponent(filter[1]))>> ELSE <<>>)
  \o (IF select # Null /\ Len(select[1]) > 0
      THEN <<Clause("$select", EncodeURIComponent(JoinComma(select[1])))>>
      ELSE <<>>)
  \o (IF top # Null /\ top[1] # 0 /\ top[1] > 0
      THEN <<Clause("$top", NumText(top[1]))>> ELSE <<>>)
  \o (IF orderby # Null /\ orderby[1] # <<>>
      THEN <<Clause("$orderby", EncodeURIComponent(orderby[1]))>> ELSE <<>>)
  \o [k \in 1..Len(extra) |->
        Clause(extra[k].key, EncodeURIComponent(extra[k].value))]

\* parts.join("&"), each part being `${key}=${value}`
RECURSIVE JoinAmp(_)
JoinAmp(parts) ==
  IF parts = <<>> THEN <<>>
  ELSE <<Head(parts).key, "=">> \o Head(parts).value
       \o (IF Len(parts) > 1 THEN <<"&">> \o JoinAmp(Tail(parts)) ELSE <<>>)

\* if (options?.crossCompany !== undefined)
ExtraParams_WhenPresent(options) ==
  IF options.crossCompany # Null
  THEN <<Clause("cross-company", <<"true">>)>> ELSE <<>>

\* if (options?.crossCompany) extraParams["cross-company"] = "true"
ExtraParams(options) ==
  IF options.crossCompany # Null /\ options.crossCompany[1]
  THEN <<Clause("cross-company", <<"true">>)>> ELSE <<>>

\* the query getCustomers / getVendors builds from its options
ListQuery(options) ==
  BuildODataQuery(options.filter, options.select, options.top,
                  options.orderby, ExtraParams(options))

NoFx ==
  [stage |-> "none", kind |-> 1, id |-> <<>>,
   options |-> NoOptions, passed |-> NoOptions, query |-> <<>>]

\* getCustomerByAccountNum / getVendorByAccountNum up to the request
LookupById ==
  /\ fx.stage = "in"
  /\ LET passed == LookupOptions(fx.kind, fx.id, fx.options) IN
     fx' = [fx EXCEPT !.stage = "out", !.passed = passed,
                      !.query = ListQuery(passed)]
  /\ UNCHANGED <<now, accessToken, tokenExpiration, exchanges,
                 lastExpiresOn, th, tool, qb, rq, backend>>

\* ------------------------------------------------ calls of buildODataQuery
\* the argument of buildODataQuery
QueryInput(filter, select, top, orderby, extra) ==
  [filter |-> filter, select |-> select, top |-> top, orderby |-> orderby,
   extra |-> extra]

NoInput == QueryInput(Null, Null, Null, Null, <<>>)

\* const baseEndpoint = "data/CustomersV3" / "data/VendorsV3"
BaseEndpoint(i) == IF i = 1 THEN "data/CustomersV3" ELSE "data/VendorsV3"

\* query ? `${baseEndpoint}?${query}` : baseEndpoint
EndpointWithQuery(i, query) ==
  IF query # <<>> THEN <<BaseEndpoint(i), "?">> \o query
  ELSE <<BaseEndpoint(i)>>

\* call "build": buildODataQuery applied to input;
\* call "list": getCustomers / getVendors (kind) applied to options, up to
\* the endpoint it hands to makeApiRequest
NoQb ==
  [stage |-> "none", call |-> "build", kind |-> 1, input |-> NoInput,
   options |-> NoOptions, parts |-> <<>>, text |-> <<>>, again |-> <<>>,
   endpoint |-> <<>>]

QueryOf(inp) ==
  BuildODataQuery(inp.filter, inp.select, inp.top, inp.orderby, inp.extra)

\* buildODataQuery is called, and called again with the same argument
BuildQuery ==
  /\ qb.stage = "in" /\ qb.call = "build"
  /\ qb' = [qb EXCEPT !.stage = "out",
                      !.parts = QueryOf(qb.input),
                      !.text = JoinAmp(QueryOf(qb.input)),
                      !.again = JoinAmp(QueryOf(qb.input))]
  /\ UNCHANGED <<now, accessToken, tokenExpiration, exchanges,
                 lastExpiresOn, th, tool, fx, rq, backend>>

\* getCustomers / getVendors up to its first request
ListEndpoint ==
  /\ qb.stage = "in" /\ qb.call = "list"
  /\ LET o == qb.options
         inp == QueryInput(o.filter, o.select, o.top, o.orderby,
                           ExtraParams(o))
         query == JoinAmp(ListQuery(o)) IN
     qb' = [qb EXCEPT !.stage = "out", !.input = inp,
                      !.parts = ListQuery(o), !.text = query,
                      !.again = query,
                      !.endpoint = EndpointWithQuery(qb.kind, query)]
  /\ UNCHANGED <<now, accessToken, tokenExpiration, exchanges,
                 lastExpiresOn, th, tool, fx, rq, backend>>

\* ------------------------------------- construction and request building
DQUOTE == "\""

\* the backend's origin, and the absolute URL of a continuation link
Origin == "https://fo.example.com"
NextPageUrl == "https://fo.example.com/data/CustomersV3?$skiptoken=2"

Front(s) == SubSeq(s, 1, Len(s) - 1)
Last(s) == s[Len(s)]

\* String.prototype.trim on the pieces of a text
RECURSIVE TrimLeft(_)
TrimLeft(s) == IF s # <<>> /\ Head(s) = " " THEN TrimLeft(Tail(s)) ELSE s

RECURSIVE TrimRight(_)
TrimRight(s) == IF s # <<>> /\ Last(s) = " " THEN TrimRight(Front(s)) ELSE s

Trim(s) == TrimRight(TrimLeft(s))

IsQuote(c) == c = QUOTE \/ c = DQUOTE

\* replace(/^['"]|['"]$/g, ""): one quote at the very start and one quote
\* at the very end are removed
StripQuotes(s) ==
  LET s1 == IF s # <<>> /\ IsQuote(Head(s)) THEN Tail(s) ELSE s IN
  IF s1 # <<>> /\ IsQuote(Last(s1)) THEN Front(s1) ELSE s1

\* replace(/[,/]+$/, ""): the trailing run of commas and slashes is removed
RECURSIVE StripTrailing(_)
StripTrailing(s) ==
  IF s # <<>> /\ (Last(s) = "," \/ Last(s) = "/")
  THEN StripTrailing(Front(s)) ELSE s

\* the constructor's d365BaseUrl
CleanUrl(d365Url) == StripTrailing(StripQuotes(Trim(d365Url)))

\* scopes: [`${resourceOrigin}/.default`]
ScopeOf(base) == base \o <<"/.default">>

\* endpoint.startsWith("http")
StartsWithHttp(endpoint) ==
  endpoint # <<>> /\ endpoint[1] \in {Origin, NextPageUrl}

\* endpoint.replace(/^\//, ""): one leading slash is removed
DropLeadingSlash(endpoint) ==
  IF endpoint # <<>> /\ Head(endpoint) = "/" THEN Tail(endpoint) ELSE endpoint

\* the url of makeApiRequest
MakeUrl(base, endpoint) ==
  IF StartsWithHttp(endpoint) THEN endpoint
  ELSE base \o <<"/">> \o DropLeadingSlash(endpoint)

\* the text of the continuation link u of a page: an absolute URL of the
\* backend
LinkUrl(u) ==
  <<Origin, "/", "data/CustomersV3", "?", "$skiptoken", "=">> \o NumText(u)

Redacted == <<"Bearer", " ", "[REDACTED]">>

\* the headers of the request
Headers(token) ==
  [Authorization |-> <<"Bearer", " ", token>>,
   Accept |-> "application/json",
   ContentType |-> "application/json",
   ODataMaxVersion |-> "4.0",
   ODataVersion |-> "4.0"]

MaskHeaders_Unmasked(headers) == headers

\* const masked = { ...headers, Authorization: "Bearer [REDACTED]" }
MaskHeaders(headers) == [headers EXCEPT !.Authorization = Redacted]

\* the two lines makeApiRequest writes before a GET
RequestLog(method, url, headers) ==
  <<[line |-> "Request", method |-> method, url |-> url],
    [line |-> "Headers", headers |-> MaskHeaders(headers)]>>

\* a client built from the configured d365Url that makes one request for
\* endpoint; the request is made in two runs that differ in the token
\* authenticate() returned (tokens[1] and tokens[2])
NoRq ==
  [stage |-> "none", d365Url |-> <<>>, endpoint |-> <<>>, tokens |-> <<"", "">>,
   base |-> <<>>, scope |-> <<>>, url |-> <<>>,
   sent |-> <<>>, log |-> <<>>]

\* new Dynamics365FO(clientId, clientSecret, tenantId, d365Url)
Construct ==
  /\ rq.stage = "new"
  /\ rq' = [rq EXCEPT !.stage = "built", !.base = CleanUrl(rq.d365Url)]
  /\ UNCHANGED <<now, accessToken, tokenExpiration, exchanges,
                 lastExpiresOn, th, tool, fx, qb, backend>>

\* makeApiRequest(endpoint, "GET") up to fetch(): the token request's
\* scope, the url, the headers sent and the lines logged
Request ==
  /\ rq.stage = "built"
  /\ LET url == MakeUrl(rq.base, rq.endpoint) IN
     rq' = [rq EXCEPT
              !.stage = "sent",
              !.scope = ScopeOf(rq.base),
              !.url = url,
              !.sent = [k \in 1..2 |-> Headers(rq.tokens[k])],
              !.log = [k \in 1..2 |->
                        RequestLog("GET", url, Headers(rq.tokens[k]))]]
  /\ UNCHANGED <<now, accessToken, tokenExpiration, exchanges,
                 lastExpiresOn, th, tool, fx, qb, backend>>

\* ------------------------------------------------- a backend with links
\* The backend serves, at each URL, a page of one record with a link to
\* another URL (next, 0: no link), or an error.  URL 0 is the endpoint of
\* the list call.
Urls == 0..(MaxPages - 1)

NoBackend == [u \in Urls |-> [ok |-> TRUE, next |-> 0]]

Backends == [Urls -> [ok : BOOLEAN, next : Urls]]

BackendAnswer(b, u) ==
  IF b[u].ok
  THEN OkJson(Payload("envelope", <<"c1">>, b[u].next, 0, "none"))
  ELSE Response("ok", 500, "Internal Server Error", TRUE, GarbageBody)

\* the chain of links from URL u ends within k pages
RECURSIVE EndsWithin(_, _, _)
EndsWithin(b, u, k) ==
  IF k = 0 THEN FALSE
  ELSE IF ~b[u].ok \/ b[u].next = 0 THEN TRUE
  ELSE EndsWithin(b, b[u].next, k - 1)

\* the chain from the list endpoint is finite: it does not cycle
FiniteChain(b) == EndsWithin(b, 0, MaxPages)

\* ------------------------------------------------------------------ actions
Tick ==
  /\ now < MaxTime
  /\ now' = now + 1
  /\ UNCHANGED <<accessToken, tokenExpiration, exchanges, lastExpiresOn,
                 th, tool, fx, qb, rq, backend>>

Ready == tool.stage = "idle" \/ tool.stage = "done"

Begin(name, entityType, first, startLog) ==
  [NoTool EXCEPT !.name = name, !.entityType = entityType,
                 !.stage = first, !.log = startLog]

\* one lookup or list call i is started
StartOne(name, entityType, i, fetchAll) ==
  /\ Ready
  /\ CanIssue(1)
  /\ th' = [j \in Threads |->
              IF j = i THEN Issue(StartThread(fetchAll), 0, exchanges)
              ELSE IdleThread]
  /\ exchanges' = exchanges + IssueCost
  /\ tool' = Begin(name, entityType, "first", <<Ev("start", i)>>)
  /\ UNCHANGED <<now, accessToken, tokenExpiration, lastExpiresOn,
                 fx, qb, rq, backend>>

\* getCustomers / getVendors with list options
StartList(i, fetchAll) == StartOne("list", "auto", i, fetchAll)

\* fetch-accounts with an accountNum and the entityType given, if any
StartAccounts(given) ==
  LET entityType == EntityTypeOf(given)
      i == Preferred(entityType) IN
  /\ Ready
  /\ CanIssue(1)
  /\ th' = [j \in Threads |->
              IF j = i THEN Issue(StartThread(FALSE), 0, exchanges)
              ELSE IdleThread]
  /\ exchanges' = exchanges + IssueCost
  /\ tool' = [Begin("accounts", entityType, "first", <<Ev("start", i)>>)
                EXCEPT !.input = given]
  /\ UNCHANGED <<now, accessToken, tokenExpiration, lastExpiresOn,
                 fx, qb, rq, backend>>

\* GET /customers/:account, GET /vendors/:vendorAccount
StartRoute(i) == StartOne("route", "auto", i, FALSE)

\* fetch-entity-by-id: both lookups are started before the handler awaits
StartEntity ==
  /\ Ready
  /\ CanIssue(2)
  /\ th' = [j \in Threads |->
              Issue(StartThread(FALSE), 0,
                    IF j = 1 THEN exchanges ELSE exchanges + IssueCost)]
  /\ exchanges' = exchanges + 2 * IssueCost
  /\ tool' = Begin("entity", "auto", "both", <<Ev("start", 1), Ev("start", 2)>>)
  /\ UNCHANGED <<now, accessToken, tokenExpiration, lastExpiresOn,
                 fx, qb, rq, backend>>

\* the identity provider answers the exchange of list call i with r
ExchangeDone(i, r) ==
  /\ th[i].pc = "exch"
  /\ LET t == [th[i] EXCEPT !.msal = r]
         a == AuthResult(r, t.xid, accessToken, tokenExpiration) IN
     /\ accessToken' = a.accessToken
     /\ tokenExpiration' = a.tokenExpiration
     /\ lastExpiresOn' = IF a.ok THEN r.expiresOn ELSE lastExpiresOn
     /\ IF a.ok
        THEN /\ th' = [th EXCEPT ![i] =
                         [t EXCEPT !.pc = "fetch", !.token = a.accessToken,
                                   !.nreq = @ + 1, !.urls = Append(@, t.url)]]
             /\ UNCHANGED <<exchanges, tool>>
        ELSE HandlerStep(i, Done(t, Throw(AuthError)))
  /\ UNCHANGED <<now, fx, qb, rq, backend>>

\* fetch() of list call i settles with r; the backend's chain of linked
\* pages is at most MaxPages long
FetchDone(i, r) ==
  /\ th[i].pc = "fetch"
  /\ LET t == ListStep([th[i] EXCEPT !.resp = r], MakeApiResult(r)) IN
     /\ t.pc = "next" => t.nreq < MaxPages
     /\ Settle(i, t)
  /\ UNCHANGED <<now, accessToken, tokenExpiration, lastExpiresOn,
                 fx, qb, rq, backend>>

\* --------------------------------------------------------- specifications
Init ==
  /\ now = 0
  /\ accessToken = Null
  /\ tokenExpiration = Null
  /\ exchanges = 0
  /\ lastExpiresOn = Null
  /\ th = [i \in Threads |-> IdleThread]
  /\ tool = NoTool
  /\ fx = NoFx
  /\ qb = NoQb
  /\ rq = NoRq
  /\ backend = NoBackend

MsalResponses == MsalFailures \cup MsalSuccesses

\* a few backend answers: pages with and without a link, with and
\* without a record, and one failure of each kind
CoarseResponses(i) ==
  {OkJson(Payload("envelope", <<>>, 1, 0, "none")),
   OkJson(Payload("envelope", <<>>, 0, 0, "none")),
   OkJson(Payload("envelope", <<IF i = 1 THEN "c1" ELSE "v1">>, 1, 0, "none")),
   NetworkFailure,
   Response("ok", 500, "Internal Server Error", TRUE, GarbageBody),
   Response("ok", 200, "OK", TRUE, HtmlDocBody)}

\* the token cache over time, under list calls that follow pages
\* every kind of answer of the backend to one request
Statuses == {200, 204, 401, 500}
ReasonPhrases == {"", "OK", "Unauthorized"}

SamplePayloads(i) ==
  {Payload("array", <<r>>, 0, 0, "none") : r \in Recs(i)}
  \cup {Payload("envelope", <<>>, 0, 0, "none"),
        Payload("scalar", <<>>, 0, 0, "none")}
  \cup {Payload("object", <<>>, 0, 0, r) : r \in Recs(i)}

Bodies(i) ==
  {EmptyBody, HtmlDocBody, HtmlNoDoctypeBody, HtmlOtherCaseBody, GarbageBody,
   JsonBody(NullPayload)}
  \cup {JsonBody(p) : p \in SamplePayloads(i)}
  \cup {JsonBodyHtmlText(p) : p \in SamplePayloads(i)}

TransportResponses(i) ==
  {NetworkFailure}
  \cup {Response("ok", st, txt, rd, b) :
          st \in Statuses, txt \in ReasonPhrases, rd \in BOOLEAN,
          b \in Bodies(i)}

\* the answers to a list call: every page and other payload, some failures
ListResponses(i) ==
  {OkJson(p) : p \in PagePayloads(i) \cup OtherPayloads(i)}
  \cup {NetworkFailure,
        Response("ok", 500, "Internal Server Error", TRUE, GarbageBody),
        Response("ok", 200, "OK", TRUE, HtmlDocBody),
        Response("ok", 200, "OK", TRUE, EmptyBody)}

\* one exchange that succeeds, one that fails
FewMsalResponses ==
  {MsalResp("resp", TRUE, Some(now + 10)), MsalResp("throw", FALSE, Null)}

NextAuth ==
  \/ Tick
  \/ \E fetchAll \in BOOLEAN : StartList(1, fetchAll)
  \/ \E r \in MsalResponses : ExchangeDone(1, r)
  \/ \E r \in CoarseResponses(1) : FetchDone(1, r)

SpecAuth == Init /\ [][NextAuth]_vars

\* single requests against every kind of answer
NextTransport ==
  \/ \E i \in Threads : StartList(i, FALSE)
  \/ \E i \in Threads, r \in FewMsalResponses : ExchangeDone(i, r)
  \/ \E i \in Threads : \E r \in TransportResponses(i) : FetchDone(i, r)

SpecTransport == Init /\ [][NextTransport]_vars

\* list calls, with and without fetchAllPages
NextList ==
  \/ \E i \in Threads, fetchAll \in BOOLEAN : StartList(i, fetchAll)
  \/ \E i \in Threads, r \in FewMsalResponses : ExchangeDone(i, r)
  \/ \E i \in Threads : \E r \in ListResponses(i) : FetchDone(i, r)

SpecList == Init /\ [][NextList]_vars

\* the answers to a lookup by identifier, in every payload shape
LookupPayloads(i) ==
  {NullPayload, Payload("scalar", <<>>, 0, 0, "none"),
   Payload("object", <<>>, 0, 0, "none"),
   Payload("array", <<>>, 0, 0, "none"),
   Payload("envelope", <<>>, 0, 0, "none")}
  \cup {Payload("object", <<>>, 0, 0, r) : r \in Recs(i)}
  \cup {Payload("array", <<r>>, 0, 0, "none") : r \in Recs(i)}
  \cup {Payload("envelope", <<r>>, 0, 0, "none") : r \in Recs(i)}

LookupResponses(i) ==
  {OkJson(p) : p \in LookupPayloads(i)}
  \cup {NetworkFailure,
        Response("ok", 500, "Internal Server Error", TRUE, GarbageBody),
        Response("ok", 200, "OK", TRUE, HtmlDocBody),
        Response("ok", 200, "OK", TRUE, EmptyBody)}

EntityTypes == {"customer", "vendor", "auto"}

\* entityType is optional in the tool's input
EntityTypeInputs == {Null} \cup {Some(e) : e \in EntityTypes}

\* the handlers that look an account identifier up
NextTool ==
  \/ \E given \in EntityTypeInputs : StartAccounts(given)
  \/ StartEntity
  \/ \E i \in Threads : StartRoute(i)
  \/ \E i \in Threads, r \in FewMsalResponses : ExchangeDone(i, r)
  \/ \E i \in Threads : \E r \in LookupResponses(i) : FetchDone(i, r)

SpecTool == Init /\ [][NextTool]_vars

\* lookups by identifier, over every identifier and caller option
InitFilter ==
  /\ now = 0
  /\ accessToken = Null
  /\ tokenExpiration = Null
  /\ exchanges = 0
  /\ lastExpiresOn = Null
  /\ th = [i \in Threads |-> IdleThread]
  /\ tool = NoTool
  /\ fx \in {[NoFx EXCEPT !.stage = "in", !.kind = i, !.id = id,
                          !.options = o] :
               i \in Threads, id \in Texts(MaxIdLen), o \in CallerOptions}
  /\ qb = NoQb
  /\ rq = NoRq
  /\ backend = NoBackend

NextFilter == LookupById

SpecFilter == InitFilter /\ [][NextFilter]_vars

\* no list call, no handler
InitClient ==
  /\ now = 0
  /\ accessToken = Null
  /\ tokenExpiration = Null
  /\ exchanges = 0
  /\ lastExpiresOn = Null
  /\ th = [i \in Threads |-> IdleThread]
  /\ tool = NoTool

\* the arguments of buildODataQuery: each option absent, present but empty
\* or not positive, and present; a filter with the characters that
\* separate clauses
Filters ==
  {Null, Some(<<>>), Some(<<"Name", " ", "eq", " ", QUOTE, "x", QUOTE>>),
   Some(<<"x", "&", "$", "top", "=", "9", "?">>)}
Selects == {Null, Some(<<>>), Some(<<"Name">>), Some(<<"Name", "City">>)}
Tops == {Null, Some(0), Some(-5), Some(1), Some(5)}
Orderbys == {Null, Some(<<>>), Some(<<"Name", " ", "desc">>)}
Extras ==
  LET cc == Clause("cross-company", <<"true">>)
      av == Clause("api-version", <<"v", "=", "1">>) IN
  {<<>>, <<cc>>, <<cc, av>>, <<av, cc>>}

QueryInputs ==
  {QueryInput(f, s, t, o, x) :
     f \in Filters, s \in Selects, t \in Tops, o \in Orderbys, x \in Extras}

ListOptions ==
  {Options(f, s, t, o, c) :
     f \in Filters, s \in Selects, t \in Tops, o \in Orderbys,
     c \in {Null, Some(FALSE), Some(TRUE)}}

\* buildODataQuery over its arguments, list calls over their options
InitQuery ==
  /\ InitClient
  /\ fx = NoFx
  /\ qb \in {[NoQb EXCEPT !.stage = "in", !.call = "build", !.input = inp] :
               inp \in QueryInputs}
          \cup {[NoQb EXCEPT !.stage = "in", !.call = "list", !.kind = i,
                             !.options = o] :
                  i \in Threads, o \in ListOptions}
  /\ rq = NoRq
  /\ backend = NoBackend

NextQuery == BuildQuery \/ ListEndpoint

SpecQuery == InitQuery /\ [][NextQuery]_vars

\* the configured URL: the origin, in quotes or not, followed by up to
\* MaxJunk slashes, commas and quotes, with or without spaces around
JunkChars == {"/", ",", QUOTE, DQUOTE}

Junk(n) == UNION {[1..k -> JunkChars] : k \in 0..n}

ConfiguredUrls ==
  {sp \o q \o <<Origin>> \o j \o sp :
     sp \in {<<>>, <<" ">>}, q \in {<<>>, <<QUOTE>>, <<DQUOTE>>},
     j \in Junk(MaxJunk)}

Slashes(n) == [k \in 1..n |-> "/"]

\* relative endpoints with 0..MaxSlashes leading slashes, an absolute link
Endpoints ==
  {Slashes(n) \o <<"data/CustomersV3">> : n \in 0..MaxSlashes}
  \cup {<<NextPageUrl>>}

Tokens == {"eyJ.token.A", "eyJ.token.B"}

InitRequest ==
  /\ InitClient
  /\ fx = NoFx
  /\ qb = NoQb
  /\ rq \in {[NoRq EXCEPT !.stage = "new", !.d365Url = u, !.endpoint = e,
                           !.tokens = <<a, b>>] :
               u \in ConfiguredUrls, e \in Endpoints,
               a \in Tokens, b \in Tokens}
  /\ backend = NoBackend

NextRequest == Construct \/ Request

SpecRequest == InitRequest /\ [][NextRequest]_vars

\* list calls with fetchAllPages against every backend
InitPaging ==
  /\ InitClient
  /\ fx = NoFx
  /\ qb = NoQb
  /\ rq = NoRq
  /\ backend \in Backends

\* the backend answers the request of list call i
PageAnswer(i) ==
  /\ th[i].pc = "fetch"
  /\ FetchDone(i, BackendAnswer(backend, th[i].url))

NextPaging ==
  \/ StartList(1, TRUE)
  \/ \E r \in FewMsalResponses : ExchangeDone(1, r)
  \/ PageAnswer(1)

SpecPaging == InitPaging /\ [][NextPaging]_vars

\* every request completes: the identity provider and the backend answer
SpecPagingLive ==
  /\ SpecPaging
  /\ WF_vars(\E r \in FewMsalResponses : ExchangeDone(1, r))
  /\ WF_vars(PageAnswer(1))

\* ------------------------------------------------------------------ claims

\* C1: a token request made while now < E - 3 minutes, E being the expiry
\* the last successful exchange returned, issues no exchange and sends the
\* cached token; a token request made with nothing cached, or at
\* now >= E - 3 minutes, issues exactly one exchange.
C1_CacheWindow ==
  \A i \in Threads :
    /\ th[i].cw = "inside" =>
         /\ th[i].rex = 0
         /\ th[i].token # Null
         /\ th[i].pc = "fetch" => th[i].token = accessToken
    /\ th[i].cw = "outside" => th[i].rex = 1

\* two requests of one call were served with one exchange, by a credential
\* expiring at minute 10, and the third, at or after minute 7, exchanges again
C1_Witness ==
  /\ th[1].pc = "exch" /\ th[1].cw = "outside" /\ th[1].nreq = 2
  /\ exchanges = 2
  /\ lastExpiresOn = Some(10)
  /\ now >= 7

IsMsalFailure(r) == r.kind = "throw" \/ r.kind = "null" \/ ~r.hasToken

\* C2: when the exchange throws, or answers null or without an access
\* token, the token request fails with an authentication error and the
\* cached token and expiry stay as they were.
C2_FailedExchangeKeepsCache ==
  [][\A i \in Threads :
       (th[i].pc = "exch" /\ th'[i].pc # "exch" /\ IsMsalFailure(th'[i].msal))
       => /\ accessToken' = accessToken
          /\ tokenExpiration' = tokenExpiration
          /\ th'[i].pc = "done"
          /\ th'[i].out.kind = "throw"
          /\ th'[i].out.err.type = "auth"]_vars

\* a renewal failed while a credential was cached
C2_Witness ==
  /\ th[1].pc = "done" /\ th[1].out.err.type = "auth"
  /\ IsMsalFailure(th[1].msal) /\ th[1].msal.kind # "none"
  /\ accessToken # Null /\ tokenExpiration # Null


\* the pages f are linked: each but the last carries a continuation link
HasLink(p) == p.shape = "envelope" /\ (p.nextLink # 0 \/ p.nextlink # 0)

LinkedPages(f) ==
  /\ Len(f) >= 1
  /\ \A k \in 1..Len(f) :
       /\ f[k].shape \in {"envelope", "array"}
       /\ HasLink(f[k]) <=> k < Len(f)

RECURSIVE Flatten(_)
Flatten(f) == IF f = <<>> THEN <<>> ELSE Head(f).items \o Flatten(Tail(f))

\* C3: with fetchAllPages, when the backend answered with n linked pages
\* (the last without a link), the list call made exactly n requests and
\* returns the pages' records concatenated in page order.
C3_AllPagesConcatenated ==
  \A i \in Threads :
    (th[i].pc = "done" /\ th[i].fetchAll /\ LinkedPages(th[i].fetched))
    => /\ th[i].out = Return(Envelope(Flatten(th[i].fetched)))
       /\ th[i].nreq = Len(th[i].fetched)
       /\ Len(th[i].urls) = Len(th[i].fetched)

\* three pages of two records each gave six records in three requests
C3_Witness ==
  /\ th[1].pc = "done" /\ th[1].fetchAll /\ LinkedPages(th[1].fetched)
  /\ Len(th[1].fetched) = 3
  /\ \A k \in 1..3 : Len(th[1].fetched[k].items) = 2
  /\ th[1].nreq = 3
  /\ Len(th[1].out.value.items) = 6

\* a 2xx answer whose body was read, is not empty, and is an HTML document
\* or does not parse as JSON
Rejectable(r) ==
  /\ r.net = "ok" /\ r.status \in 200..299 /\ r.readOk
  /\ r.body.syntax # "empty"
  /\ r.body.html \/ r.body.syntax # "json"

\* C9: a 2xx answer whose non-empty body is an HTML document or fails JSON
\* parsing makes the request fail with an unexpected-payload error; the
\* body is not returned as data.
C9_HtmlOrNonJsonRejected ==
  \A i \in Threads :
    Rejectable(th[i].resp)
    => /\ th[i].pc = "done"
       /\ th[i].out = Throw(Err("payload", 0, "", Some(th[i].resp.body)))
       /\ tool.stage = "done" => tool.out.tag = "error"

\* an HTML page without the document marker came back with status 200
C9_Witness ==
  /\ th[1].pc = "done" /\ th[1].out.kind = "throw"
  /\ th[1].resp.status = 200 /\ th[1].resp.readOk
  /\ th[1].resp.body = HtmlOtherCaseBody

\* C10: a non-2xx answer makes the request fail with an error carrying the
\* status, the reason phrase and the raw body, whatever the body is.
C10_HttpErrorCarriesResponse ==
  \A i \in Threads :
    (th[i].resp.net = "ok" /\ th[i].resp.status \notin 200..299)
    => /\ th[i].pc = "done"
       /\ th[i].out.kind = "throw"
       /\ th[i].out.err.type = "http"
       /\ th[i].out.err.status = th[i].resp.status
       /\ th[i].out.err.statusText = th[i].resp.statusText
       /\ th[i].resp.readOk => th[i].out.err.body = Some(th[i].resp.body)
       /\ tool.stage = "done" => tool.out.tag = "error"

\* a 500 with an empty body failed with an HTTP error
C10_Witness ==
  /\ th[1].pc = "done" /\ th[1].out.err.type = "http"
  /\ th[1].resp.status = 500 /\ th[1].resp.body = EmptyBody
  /\ th[1].resp.readOk

\* the lookup settled with o found a record
Yields(o) == o.kind = "return" /\ NormalizeSingleRecord(o.value) # "none"
Found(o) == NormalizeSingleRecord(o.value)

Position(log, e) ==
  IF \E k \in 1..Len(log) : log[k] = e
  THEN CHOOSE k \in 1..Len(log) : log[k] = e
  ELSE 0

\* C4: fetch-accounts looks the preferred kind up first; a record found
\* there is returned with its tag and the other kind is never looked up;
\* the fallback lookup is issued only after the preferred lookup completed
\* without a record, and its record is returned with the fallback tag.
C4_PreferredThenFallback ==
  tool.name = "accounts" =>
    LET pref == IF tool.entityType = "vendor" THEN 2 ELSE 1
        fb == 3 - pref IN
    /\ tool.log[1] = Ev("start", pref)
    /\ Position(tool.log, Ev("start", fb)) # 0 =>
         /\ Position(tool.log, Ev("end", pref)) # 0
         /\ Position(tool.log, Ev("end", pref))
              < Position(tool.log, Ev("start", fb))
         /\ th[pref].out.kind = "return" /\ ~Yields(th[pref].out)
    /\ (th[pref].pc = "done" /\ Yields(th[pref].out)) =>
         /\ tool.stage = "done"
         /\ tool.out = Tagged(pref, Found(th[pref].out))
         /\ th[fb].pc = "idle"
         /\ tool.log = <<Ev("start", pref), Ev("end", pref)>>
    /\ (th[fb].pc = "done" /\ Yields(th[fb].out)) =>
         /\ tool.stage = "done"
         /\ tool.out = Tagged(fb, Found(th[fb].out))

\* customer-first, the identifier is a vendor only: one customer lookup,
\* then one vendor lookup, and the vendor match
C4_Witness ==
  /\ tool.name = "accounts" /\ tool.entityType = "customer"
  /\ tool.stage = "done"
  /\ tool.log = <<Ev("start", 1), Ev("end", 1), Ev("start", 2), Ev("end", 2)>>
  /\ th[1].nreq = 1 /\ th[2].nreq = 1
  /\ tool.out.tag = "vendor" /\ tool.out.vendor = "v1"

\* C5 as stated: in every mode, when a lookup fails with an error the other
\* kind's lookup is still performed, and the record it finds is returned.
C5_ErrorToleratedInEveryMode ==
  (tool.name \in {"accounts", "entity"} /\ tool.stage = "done") =>
    \A i \in Threads :
      (th[i].pc = "done" /\ th[i].out.kind = "throw") =>
        /\ th[3 - i].pc = "done"
        /\ Yields(th[3 - i].out) =>
             tool.out = Tagged(3 - i, Found(th[3 - i].out))

\* C5 amended: fetch-entity-by-id treats a failed lookup as not found for
\* that branch and returns the other branch's record; fetch-accounts ends
\* with an error result as soon as a lookup fails, and a failed preferred
\* lookup keeps the fallback lookup from being issued.
C5_ErrorToleratedInParallelOnly ==
  /\ (tool.name = "entity" /\ tool.stage = "done") =>
       \A i \in Threads :
         th[i].out.kind = "throw" =>
           /\ th[3 - i].pc = "done"
           /\ tool.out.tag # "error"
           /\ IF Yields(th[3 - i].out)
              THEN tool.out = Tagged(3 - i, Found(th[3 - i].out))
              ELSE tool.out = NotFoundOut
  /\ tool.name = "accounts" =>
       \A i \in Threads :
         (th[i].pc = "done" /\ th[i].out.kind = "throw") =>
           /\ tool.stage = "done"
           /\ tool.out = ErrorOut(th[i].out.err)
           /\ i = (IF tool.entityType = "vendor" THEN 2 ELSE 1) =>
                th[3 - i].pc = "idle"

\* in parallel mode the customer lookup failed and the vendor was returned
C5_Witness ==
  /\ tool.name = "entity" /\ tool.stage = "done"
  /\ th[1].out.kind = "throw" /\ th[1].out.err.type = "http"
  /\ tool.out.tag = "vendor" /\ tool.out.vendor = "v2"

\* C6: the result of fetch-entity-by-id is decided by which lookups found
\* a record: both -> both records, each in its own place; one -> that
\* tagged record; none -> not found.
C6_ParallelOutcome ==
  (tool.name = "entity" /\ tool.stage = "done") =>
    LET c == Yields(th[1].out)
        v == Yields(th[2].out) IN
    /\ th[1].pc = "done" /\ th[2].pc = "done"
    /\ tool.out.tag \in {"both", "customer", "vendor", "notfound"}
    /\ tool.out.tag = "both" <=> (c /\ v)
    /\ tool.out.tag = "customer" <=> (c /\ ~v)
    /\ tool.out.tag = "vendor" <=> (~c /\ v)
    /\ tool.out.tag = "notfound" <=> (~c /\ ~v)
    /\ tool.out.customer = (IF c THEN Found(th[1].out) ELSE "none")
    /\ tool.out.vendor = (IF v THEN Found(th[2].out) ELSE "none")
    /\ tool.out.customer \in Recs(1) \cup {"none"}
    /\ tool.out.vendor \in Recs(2) \cup {"none"}

\* the identifier is both a customer and a vendor
C6_Witness ==
  /\ tool.name = "entity" /\ tool.stage = "done"
  /\ tool.out.tag = "both"
  /\ tool.out.customer = "c1" /\ tool.out.vendor = "v2"

\* the records a payload holds
ResultSet(p) ==
  IF p.shape \in {"array", "envelope"} THEN p.items
  ELSE IF p.shape = "object" /\ p.obj # "none" THEN <<p.obj>>
  ELSE <<>>

\* C8: a lookup by identifier gives the first record of a non-empty result
\* set and "absent" for an empty one, in every payload shape; an empty
\* result set is not an error.
C8_AbsenceIsAValue ==
  (tool.name = "route" /\ tool.stage = "done") =>
    \A i \in Threads :
      (th[i].pc = "done" /\ th[i].out.kind = "return") =>
        LET rs == ResultSet(th[i].out.value) IN
        IF rs # <<>> THEN tool.out = Tagged(i, rs[1])
        ELSE tool.out = NotFoundOut

\* the route answered "not found" to an empty envelope
C8_Witness ==
  /\ tool.name = "route" /\ tool.stage = "done"
  /\ th[1].out = Return(Envelope(<<>>))
  /\ tool.out.tag = "notfound"

QuoteCount(s) == Cardinality({k \in 1..Len(s) : s[k] = QUOTE})

\* s with each doubled quote read back as one quote; a quote that is not
\* doubled is marked
RECURSIVE Undouble(_)
Undouble(s) ==
  IF s = <<>> THEN <<>>
  ELSE IF Head(s) # QUOTE THEN <<Head(s)>> \o Undouble(Tail(s))
  ELSE IF Len(s) >= 2 /\ s[2] = QUOTE
       THEN <<QUOTE>> \o Undouble(SubSeq(s, 3, Len(s)))
  ELSE <<"lone quote">> \o Undouble(Tail(s))

ClausesOf(q, key) == {k \in 1..Len(q) : q[k].key = key}

\* C7: the lookup by identifier passes the filter <Field> eq '<id>' with
\* every quote of the identifier doubled, and top = 1, whatever filter or
\* top the caller's options hold; both reach the query.
C7_FilterQuotesDoubled ==
  fx.stage = "out" =>
    LET f == fx.passed.filter[1]
        field == IF fx.kind = 1 THEN "CustomerAccount"
                 ELSE "VendorAccountNumber"
        inner == SubSeq(f, 6, Len(f) - 1) IN
    /\ fx.passed.filter # Null
    /\ Len(f) = 6 + Len(fx.id) + QuoteCount(fx.id)
    /\ SubSeq(f, 1, 5) = <<field, " ", "eq", " ", QUOTE>>
    /\ f[Len(f)] = QUOTE
    /\ Undouble(inner) = fx.id
    /\ fx.passed.top = Some(1)
    /\ Cardinality(ClausesOf(fx.query, "$filter")) = 1
    /\ Cardinality(ClausesOf(fx.query, "$top")) = 1
    /\ \A k \in 1..Len(fx.query) :
         /\ fx.query[k].key = "$top" => fx.query[k].value = <<"1">>
         /\ fx.query[k].key = "$filter" =>
              /\ Len(fx.query[k].value) = Len(f)
              /\ \A m \in 1..Len(f) :
                   fx.query[k].value[m] = (IF f[m] = " " THEN "%20" ELSE f[m])

\* an identifier with two quotes, looked up with a caller's own filter and top
C7_Witness ==
  /\ fx.stage = "out" /\ fx.kind = 1
  /\ fx.id = <<QUOTE, "a", QUOTE>>
  /\ fx.options.filter # Null /\ fx.options.top = Some(5)
  /\ fx.passed.filter
       = Some(<<"CustomerAccount", " ", "eq", " ", QUOTE,
                QUOTE, QUOTE, "a", QUOTE, QUOTE, QUOTE>>)

\* C11: a 2xx answer whose body was read and is empty makes the request
\* return null: the list call returns null to its caller and nothing is
\* thrown.
C11_EmptyBodyIsNull ==
  \A i \in Threads :
    (th[i].resp.net = "ok" /\ th[i].resp.status \in 200..299
       /\ th[i].resp.readOk /\ th[i].resp.body.syntax = "empty")
    => /\ th[i].pc = "done"
       /\ th[i].out = Return(NullPayload)
       /\ tool.stage = "done" =>
            tool.out = ToolOut("payload", "none", "none", NullPayload, NoErr)

\* a 204 without a body came back and the call returned null
C11_Witness ==
  /\ th[2].pc = "done" /\ th[2].out = Return(NullPayload)
  /\ th[2].resp.status = 204 /\ th[2].resp.readOk
  /\ th[2].resp.body = EmptyBody
  /\ tool.stage = "done" /\ tool.out.tag = "payload"

\* a text cut at each separator piece
RECURSIVE Split(_, _)
Split(s, sep) ==
  IF \A k \in 1..Len(s) : s[k] # sep THEN <<s>>
  ELSE LET k == CHOOSE j \in 1..Len(s) :
                  s[j] = sep /\ \A m \in 1..(j - 1) : s[m] # sep IN
       <<SubSeq(s, 1, k - 1)>> \o Split(SubSeq(s, k + 1, Len(s)), sep)

\* the clauses of a query string, and the name of each
ClauseTexts(text) == IF text = <<>> THEN <<>> ELSE Split(text, "&")

ClauseNames(text) ==
  [k \in 1..Len(ClauseTexts(text)) |->
     IF ClauseTexts(text)[k] = <<>> THEN "" ELSE ClauseTexts(text)[k][1]]

ClauseRank(name) ==
  CASE name = "$filter" -> 1
    [] name = "$select" -> 2
    [] name = "$top" -> 3
    [] name = "$orderby" -> 4
    [] OTHER -> 5

IsExtraName(name) == ClauseRank(name) = 5

HasClause(text, name) ==
  \E k \in 1..Len(ClauseNames(text)) : ClauseNames(text)[k] = name

\* C13: the query string holds a $filter clause exactly when a non-empty
\* filter is given, a $select clause exactly when a non-empty select list
\* is given, a $top clause exactly when top is given and positive, an
\* $orderby clause exactly when a non-empty orderby is given; with no such
\* option and no extra entry it is the empty string.
C13_ClauseOmission ==
  (qb.stage = "out" /\ qb.call = "build") =>
    LET i == qb.input
        filterOn == i.filter # Null /\ Len(i.filter[1]) > 0
        selectOn == i.select # Null /\ Len(i.select[1]) > 0
        topOn == i.top # Null /\ i.top[1] > 0
        orderbyOn == i.orderby # Null /\ Len(i.orderby[1]) > 0 IN
    /\ HasClause(qb.text, "$filter") <=> filterOn
    /\ HasClause(qb.text, "$select") <=> selectOn
    /\ HasClause(qb.text, "$top") <=> topOn
    /\ HasClause(qb.text, "$orderby") <=> orderbyOn
    /\ Len(ClauseNames(qb.text))
         = Cardinality({b \in {<<1, filterOn>>, <<2, selectOn>>, <<3, topOn>>,
                               <<4, orderbyOn>>} : b[2]})
           + Len(i.extra)
    /\ (~filterOn /\ ~selectOn /\ ~topOn /\ ~orderbyOn /\ i.extra = <<>>)
         => qb.text = <<>>

\* an empty filter, an empty select list and top = -5 give the empty string
C13_Witness ==
  /\ qb.stage = "out" /\ qb.call = "build"
  /\ qb.input = QueryInput(Some(<<>>), Some(<<>>), Some(-5), Some(<<>>), <<>>)
  /\ qb.text = <<>>

\* the query string of an endpoint: what follows its "?"
QueryPart(endpoint) ==
  IF Len(Split(endpoint, "?")) >= 2 THEN Split(endpoint, "?")[2] ELSE <<>>

\* C14: the endpoint a list call requests carries the clause
\* cross-company=true, once and after every other clause, when crossCompany
\* is true; it carries no cross-company clause when crossCompany is false
\* or absent.
C14_CrossCompanyClause ==
  (qb.stage = "out" /\ qb.call = "list") =>
    LET texts == ClauseTexts(QueryPart(qb.endpoint))
        names == ClauseNames(QueryPart(qb.endpoint))
        where == {k \in 1..Len(names) : names[k] = "cross-company"} IN
    /\ qb.endpoint[1]
         = (IF qb.kind = 1 THEN "data/CustomersV3" ELSE "data/VendorsV3")
    /\ Len(Split(qb.endpoint, "?")) <= 2
    /\ IF qb.options.crossCompany = Some(TRUE)
       THEN /\ where = {Len(names)}
            /\ texts[Len(texts)] = <<"cross-company", "=", "true">>
       ELSE where = {}

\* a vendor list call across companies with a filter and a top
C14_Witness ==
  /\ qb.stage = "out" /\ qb.call = "list" /\ qb.kind = 2
  /\ qb.options.crossCompany = Some(TRUE)
  /\ ClauseNames(QueryPart(qb.endpoint)) = <<"$filter", "$top", "cross-company">>

\* C15 as stated: whatever quotes, trailing slashes and trailing commas
\* surround the origin in the configured URL, the token exchange is
\* requested with the scope <origin>/.default.
C15_ScopeIsOrigin ==
  rq.stage = "sent" => rq.scope = <<Origin, "/.default">>

\* the configured URL "https://fo.example.com", (in double quotes,
\* followed by a comma) gives a scope that holds the closing quote
C15_Witness ==
  /\ rq.stage = "sent"
  /\ rq.d365Url = <<DQUOTE, Origin, DQUOTE, ",">>
  /\ rq.scope = <<Origin, DQUOTE, "/.default">>

\* the origin followed by slashes only
OnlyTrailingSlashes(d365Url) ==
  /\ Len(d365Url) >= 1 /\ d365Url[1] = Origin
  /\ \A k \in 2..Len(d365Url) : d365Url[k] = "/"

\* a path with slashes before it
IsRelative(endpoint) ==
  /\ Len(endpoint) >= 1 /\ Last(endpoint) = "data/CustomersV3"
  /\ \A k \in 1..(Len(endpoint) - 1) : endpoint[k] = "/"

\* C16 as stated: for a base URL with any number of trailing slashes and a
\* relative endpoint with any number of leading slashes, the request URL
\* is the base, exactly one "/", and the path.
C16_ExactlyOneSlash ==
  (rq.stage = "sent" /\ OnlyTrailingSlashes(rq.d365Url)
     /\ IsRelative(rq.endpoint))
  => rq.url = <<Origin, "/", "data/CustomersV3">>

\* the endpoint //data/CustomersV3 is requested at <origin>//data/CustomersV3
C16_Witness ==
  /\ rq.stage = "sent"
  /\ rq.d365Url = <<Origin, "/", "/">>
  /\ rq.endpoint = <<"/", "/", "data/CustomersV3">>
  /\ rq.url = <<Origin, "/", "/", "data/CustomersV3">>

\* the pieces of the lines logged for a request
LoggedPieces(log) ==
  {log[1].method} \cup {log[1].url[k] : k \in 1..Len(log[1].url)}
  \cup {log[2].headers.Authorization[k] :
          k \in 1..Len(log[2].headers.Authorization)}
  \cup {log[2].headers.Accept, log[2].headers.ContentType,
        log[2].headers.ODataMaxVersion, log[2].headers.ODataVersion}

\* C17: in two runs of a request that differ only in the token, the lines
\* logged are the same and hold "Bearer [REDACTED]" as the Authorization
\* value, the token occurs nowhere in them, and each run sends
\* "Bearer <its token>".
C17_TokenMaskedInLog ==
  rq.stage = "sent" =>
    /\ rq.log[1] = rq.log[2]
    /\ \A k \in 1..2 :
         /\ rq.log[k][2].headers.Authorization = <<"Bearer", " ", "[REDACTED]">>
         /\ rq.tokens[k] \notin LoggedPieces(rq.log[k])
         /\ rq.sent[k].Authorization = <<"Bearer", " ", rq.tokens[k]>>
         /\ \A h \in {"Accept", "ContentType", "ODataMaxVersion", "ODataVersion"} :
              rq.log[k][2].headers[h] = rq.sent[k][h]

\* two runs with different tokens sent different headers and logged the same
C17_Witness ==
  /\ rq.stage = "sent"
  /\ rq.tokens[1] # rq.tokens[2]
  /\ rq.sent[1] # rq.sent[2]
  /\ rq.log[1] = rq.log[2]

\* C18: a request (a list call without fetchAllPages) issues at most one
\* token exchange and at most one fetch; when the exchange fails no fetch
\* is made, and when the exchange or the fetch fails, in any way, the call
\* ends in that step with the error, its caller gets the error, and nothing
\* is issued again.
C18_NoRetries ==
  [][\A i \in Threads :
       /\ th'[i].nreq <= 1 /\ Len(th'[i].urls) <= 1
       /\ exchanges' - exchanges <= 1
       /\ (th[i].pc \in {"exch", "fetch"} /\ th'[i] # th[i]) =>
            /\ exchanges' = exchanges
            /\ th'[i].xid = th[i].xid
            /\ th'[i].pc \in {"fetch", "done"}
            /\ th'[i].pc = "fetch" => th[i].pc = "exch" /\ th'[i].nreq = 1
            /\ th'[i].pc = "done" =>
                 /\ th'[i].nreq = (IF th[i].pc = "exch" THEN 0 ELSE 1)
                 /\ tool'.stage = "done"
                 /\ th'[i].out.kind = "throw" =>
                      tool'.out = ErrorOut(th'[i].out.err)
            /\ (th[i].pc = "exch" /\ IsMsalFailure(th'[i].msal)) =>
                 th'[i].pc = "done" /\ th'[i].out.kind = "throw"
            /\ (th[i].pc = "fetch"
                   /\ (th'[i].resp.net = "fail"
                        \/ th'[i].resp.status \notin 200..299
                        \/ Rejectable(th'[i].resp))) =>
                 th'[i].pc = "done" /\ th'[i].out.kind = "throw"]_vars

\* one exchange, one fetch, a network failure: the call ended with the error
C18_Witness ==
  /\ th[1].pc = "done" /\ th[1].out.err.type = "network"
  /\ th[1].nreq = 1 /\ th[1].rex = 1 /\ exchanges = 1
  /\ tool.stage = "done" /\ tool.out.tag = "error"

\* a failure occurred during the request of list call t
FailureOccurred(t) ==
  \/ t.msal.kind # "none" /\ IsMsalFailure(t.msal)
  \/ t.resp.net = "fail"
  \/ t.resp.net = "ok" /\ ~t.resp.readOk
  \/ t.resp.net = "ok" /\ t.resp.status \notin 200..299
  \/ Rejectable(t.resp)

\* C19 as stated: whenever the token exchange fails, the fetch fails,
\* reading the response body fails, the status is not 2xx or the payload
\* does not parse, the request fails to its caller and returns no value.
C19_NoErrorSwallowed ==
  \A i \in Threads :
    (th[i].pc = "done" /\ FailureOccurred(th[i]))
    => /\ th[i].out.kind = "throw"
       /\ tool.stage = "done" => tool.out.tag = "error"

\* reading the body of a 200 answer failed and the request returned null
C19_Witness ==
  /\ th[1].pc = "done"
  /\ th[1].resp.net = "ok" /\ th[1].resp.status = 200 /\ ~th[1].resp.readOk
  /\ th[1].out = Return(NullPayload)
  /\ tool.stage = "done" /\ tool.out.tag = "payload"

\* C20: against a backend whose chain of links is finite, a list call with
\* fetchAllPages whose requests are all answered ends (returns or fails);
\* against a backend whose links cycle, a call that got its first page
\* never ends: however many requests it has made, it makes another.
C20_LoopTermination ==
  /\ [](((th[1].pc \in {"exch", "fetch"}) /\ FiniteChain(backend))
         => <>(th[1].pc = "done"))
  /\ []((~FiniteChain(backend) /\ th[1].nreq >= 1)
         => /\ th[1].pc = "fetch"
            /\ Len(th[1].results) = th[1].nreq - 1)

\* the backend's pages link in a cycle and the third request is under way
C20_Witness ==
  /\ ~FiniteChain(backend)
  /\ th[1].pc = "fetch" /\ th[1].nreq = 3
  /\ Len(th[1].results) = 2

\* neither an array nor an object with an array under "value"
NotPageShaped(p) == p.shape \notin {"array", "envelope"}

\* C21: with fetchAllPages, when the first payload is not page-shaped the
\* list call returns that payload as it is, after one request.
C21_RawFirstPayload ==
  \A i \in Threads :
    (th[i].fetchAll /\ Len(th[i].fetched) >= 1
       /\ NotPageShaped(th[i].fetched[1]))
    => /\ th[i].pc = "done"
       /\ th[i].out = Return(th[i].fetched[1])
       /\ th[i].out.value.shape # "envelope"
       /\ Len(th[i].fetched) = 1
       /\ th[i].nreq = 1 /\ Len(th[i].urls) = 1

\* a single object came back to a vendor list call with fetchAllPages
C21_Witness ==
  /\ th[2].pc = "done" /\ th[2].fetchAll
  /\ th[2].out = Return(Payload("object", <<>>, 0, 0, "v1"))
  /\ th[2].nreq = 1

\* C22 as stated: the cached token and the cached expiry are both absent,
\* or both come from the last successful exchange, the expiry being that
\* exchange's expiresOn minus 3 minutes.
C22_CredentialWhole ==
  /\ accessToken = Null <=> tokenExpiration = Null
  /\ accessToken # Null =>
       /\ lastExpiresOn # Null
       /\ tokenExpiration = Some(lastExpiresOn[1] - 3)

\* the token of the second exchange, which answered without expiresOn, is
\* cached with the expiry of the first
C22_Witness ==
  /\ accessToken = Some(2)
  /\ lastExpiresOn = Null
  /\ tokenExpiration # Null
  /\ th[1].msal = MsalResp("resp", TRUE, Null)

\* the exchange of list call t was answered with a token
ExchangeSucceeded(t) ==
  t.rex = 1 /\ t.msal.kind = "resp" /\ t.msal.hasToken

ExchangeAnswered(t) == t.rex = 1 /\ t.msal.kind # "none"

\* C23: when the two lookups of fetch-entity-by-id ask for a token with no
\* valid credential cached, each issues an exchange of its own; each
\* lookup whose exchange succeeds sends the token of that exchange, a
\* lookup whose exchange fails gets an authentication error, and once both
\* exchanges are answered the cache holds the token and expiry of one of
\* the successful ones.
C23_DuplicateExchanges ==
  tool.name = "entity" =>
    /\ th[1].rex = th[2].rex
    /\ th[1].rex = 1 => th[1].xid # th[2].xid
    /\ \A i \in Threads :
         /\ ExchangeSucceeded(th[i]) =>
              /\ th[i].token = Some(th[i].xid)
              /\ th[i].nreq = 1
         /\ (ExchangeAnswered(th[i]) /\ ~ExchangeSucceeded(th[i])) =>
              /\ th[i].pc = "done" /\ th[i].out.err.type = "auth"
              /\ th[i].nreq = 0
    /\ (ExchangeAnswered(th[1]) /\ ExchangeAnswered(th[2])
          /\ \E i \in Threads : ExchangeSucceeded(th[i])) =>
         \E i \in Threads :
           /\ ExchangeSucceeded(th[i])
           /\ accessToken = Some(th[i].xid)
           /\ tokenExpiration = Some(th[i].msal.expiresOn[1] - 3)

\* two exchanges were issued at once; the vendor lookup's was answered
\* first, and the cache holds the token of the customer lookup's
C23_Witness ==
  /\ tool.name = "entity"
  /\ th[1].rex = 1 /\ th[2].rex = 1
  /\ th[1].xid = 1 /\ th[2].xid = 2 /\ exchanges = 2
  /\ th[1].pc = "fetch" /\ th[2].pc = "done"
  /\ th[1].token = Some(1) /\ th[2].token = Some(2)
  /\ accessToken = Some(1)

\* the result the two settled lookups stand for
JoinOf(c, v) ==
  IF Yields(c) /\ Yields(v)
  THEN ToolOut("both", Found(c), Found(v), NullPayload, NoErr)
  ELSE IF Yields(c) THEN Tagged(1, Found(c))
  ELSE IF Yields(v) THEN Tagged(2, Found(v))
  ELSE NotFoundOut

\* C24: fetch-entity-by-id joins its two lookups by waiting for both: both
\* are started before either completes, the handler has no result while
\* either is pending and has one as soon as both have completed, in
\* either order of completion, and the result is a function of the two
\* outcomes alone.
C24_WaitForAllJoin ==
  tool.name = "entity" =>
    /\ Len(tool.log) >= 2
    /\ tool.log[1] = Ev("start", 1) /\ tool.log[2] = Ev("start", 2)
    /\ \A k \in 3..Len(tool.log) : tool.log[k][1] = "end"
    /\ \A i \in Threads :
         th[i].pc = "done" <=> Position(tool.log, Ev("end", i)) # 0
    /\ tool.stage = "done" <=> (th[1].pc = "done" /\ th[2].pc = "done")
    /\ tool.stage # "done" => tool.out = NoToolOut
    /\ tool.stage = "done" =>
         /\ tool.log \in
              {<<Ev("start", 1), Ev("start", 2), Ev("end", 1), Ev("end", 2)>>,
               <<Ev("start", 1), Ev("start", 2), Ev("end", 2), Ev("end", 1)>>}
         /\ tool.out = JoinOf(th[1].out, th[2].out)

\* the vendor lookup failed first, the customer lookup then found a
\* record: the handler waited for it
C24_Witness ==
  /\ tool.name = "entity" /\ tool.stage = "done"
  /\ tool.log = <<Ev("start", 1), Ev("start", 2), Ev("end", 2), Ev("end", 1)>>
  /\ th[2].out.kind = "throw" /\ th[1].out.kind = "return"
  /\ tool.out = Tagged(1, "c1")

\* C25: with fetchAllPages, a payload after the first that is neither an
\* array nor an object with an array "value" ends the loop without an
\* error: the call returns the records of the pages before it, wrapped;
\* the malformed payload adds no record and the link it may carry is not
\* requested.
C25_MalformedLaterPage ==
  \A i \in Threads :
    LET f == th[i].fetched
        n == Len(f) IN
    (th[i].fetchAll /\ \E k \in 2..n : NotPageShaped(f[k]))
    => /\ NotPageShaped(f[n])
       /\ \A k \in 1..(n - 1) : ~NotPageShaped(f[k])
       /\ th[i].pc = "done"
       /\ th[i].out = Return(Envelope(Flatten(SubSeq(f, 1, n - 1))))
       /\ th[i].nreq = n /\ Len(th[i].urls) = n

\* a page of one record, then an object that carries a link
C25_Witness ==
  /\ th[1].fetchAll /\ th[1].pc = "done"
  /\ th[1].fetched = <<Payload("envelope", <<"c1">>, 1, 0, "none"),
                       Payload("object", <<>>, 1, 0, "c2")>>
  /\ th[1].out = Return(Envelope(<<"c1">>))
  /\ th[1].nreq = 2

\* the link of a page: the first spelling, else the second, else none
LinkUnderEitherSpelling(p) ==
  IF p.shape # "envelope" THEN 0
  ELSE IF p.nextLink # 0 THEN p.nextLink
  ELSE IF p.nextlink # 0 THEN p.nextlink
  ELSE 0

\* C26: with fetchAllPages, after each page the link is read from
\* "@odata.nextLink" and, when that is absent, from "@odata.nextlink"; a
\* page with a link under either spelling is followed by exactly one
\* more request, to exactly the URL of the link; a page with neither
\* (a bare array too) ends the loop with no further request.
C26_EitherLinkSpelling ==
  \A i \in Threads :
    LET f == th[i].fetched
        n == Len(f)
        u == th[i].urls IN
    (th[i].fetchAll /\ n >= 1 /\ ~NotPageShaped(f[n])) =>
      /\ \A k \in 1..(n - 1) :
           /\ LinkUnderEitherSpelling(f[k]) # 0
           /\ u[k + 1] = LinkUnderEitherSpelling(f[k])
           /\ MakeUrl(<<Origin>>, LinkUrl(u[k + 1])) = LinkUrl(u[k + 1])
      /\ Len(u) \in {n, n + 1}
      /\ th[i].nreq = Len(u)
      /\ IF LinkUnderEitherSpelling(f[n]) = 0
         THEN /\ th[i].pc = "done" /\ Len(u) = n
              /\ th[i].out = Return(Envelope(Flatten(f)))
         ELSE /\ th[i].url = LinkUnderEitherSpelling(f[n])
              /\ \/ th[i].pc = "exch" /\ Len(u) = n
                 \/ /\ th[i].pc = "fetch" /\ Len(u) = n + 1
                    /\ u[n + 1] = LinkUnderEitherSpelling(f[n])
                 \/ /\ th[i].pc = "done" /\ Len(u) = n + 1
                    /\ u[n + 1] = LinkUnderEitherSpelling(f[n])
                    /\ th[i].out.kind = "throw"

\* a page with the link under the second spelling only was followed, and
\* the bare array it led to ended the loop
C26_Witness ==
  /\ th[1].fetchAll /\ th[1].pc = "done"
  /\ th[1].fetched = <<Payload("envelope", <<"c1">>, 0, 2, "none"),
                       Payload("array", <<"c2", "c1">>, 0, 0, "none")>>
  /\ th[1].urls = <<0, 2>>
  /\ th[1].out = Return(Envelope(<<"c1", "c2", "c1">>))

\* a 2xx answer whose body was read, is not empty and is valid JSON, not
\* an HTML document
ValidJsonAnswer(r) ==
  /\ r.net = "ok" /\ ResponseOk(r) /\ r.readOk
  /\ r.body.syntax = "json" /\ ~r.body.html

\* C27 as stated: every 2xx answer whose non-empty body is valid JSON is
\* returned as its parsed value, also when a string value inside it
\* contains "<html".
C27_ValidJsonReturned ==
  \A i \in Threads :
    ValidJsonAnswer(th[i].resp)
    => /\ th[i].pc = "done"
       /\ th[i].out = Return(th[i].resp.body.json)

\* a 200 answer with a valid JSON record in which a string value contains
\* "<html" was rejected as an unexpected payload
C27_Witness ==
  /\ th[1].pc = "done"
  /\ th[1].resp = Response("ok", 200, "OK", TRUE,
                           JsonBodyHtmlText(Payload("object", <<>>, 0, 0, "c1")))
  /\ th[1].out.kind = "throw" /\ th[1].out.err.type = "payload"

\* the error the last request of list call t failed with, if it failed
\* with one: the exchange failed, fetch() failed, the status is not 2xx,
\* or the payload was rejected
RequestError(t) ==
  IF t.msal.kind # "none" /\ IsMsalFailure(t.msal) THEN Some(AuthError)
  ELSE IF t.resp.net = "fail" THEN Some(Err("network", 0, "", Null))
  ELSE IF t.resp.net = "ok" /\ ~ResponseOk(t.resp)
       THEN Some(Err("http", t.resp.status, t.resp.statusText, TextOf(t.resp)))
  ELSE IF t.resp.net = "ok" /\ t.resp.readOk /\ t.resp.body.syntax # "empty"
          /\ (t.resp.body.syntax # "json" \/ t.resp.body.doctype
              \/ t.resp.body.htmlTag)
       THEN Some(Err("payload", 0, "", Some(t.resp.body)))
  ELSE Null

\* C28: with fetchAllPages, when the request for a page, the first or a
\* later one, fails with an error (authentication, network, status,
\* rejected payload), the list call fails with that error, and the
\* records of the pages before it are not returned.
C28_AllOrError ==
  \A i \in Threads :
    (th[i].fetchAll /\ RequestError(th[i]) # Null)
    => /\ th[i].pc = "done"
       /\ th[i].out = Throw(RequestError(th[i])[1])
       /\ th[i].out.value = NullPayload
       /\ tool.stage = "done"
       /\ tool.out = ErrorOut(RequestError(th[i])[1])
       /\ tool.out.value = NullPayload

\* the first page gave a record; the credential ran out before the second
\* page and the renewal failed
C28_Witness ==
  /\ th[1].fetchAll /\ th[1].pc = "done"
  /\ th[1].results = <<"c1">> /\ th[1].nreq = 1 /\ Len(th[1].fetched) = 1
  /\ th[1].msal = MsalResp("throw", FALSE, Null)
  /\ th[1].out = Throw(AuthError)
  /\ tool.out.tag = "error"

\* the renewal threshold of the cached credential has not passed
BeforeThreshold ==
  /\ accessToken # Null /\ tokenExpiration # Null
  /\ now < tokenExpiration[1]
  /\ lastExpiresOn # Null => now < lastExpiresOn[1] - 3

\* C29: every request a list call sends, the first and each continuation
\* request, is prepared by the credential check: it carries the cached
\* token only if the renewal threshold has not passed at that moment;
\* otherwise an exchange is issued first, and the request is sent when it
\* succeeds, with the token it returned.
C29_CheckBeforeEveryRequest ==
  [][\A i \in Threads :
       /\ th'[i].nreq = th[i].nreq + 1 =>
            /\ th'[i].pc = "fetch"
            /\ IF th[i].pc = "exch"
               THEN /\ th'[i].msal.kind = "resp" /\ th'[i].msal.hasToken
                    /\ th'[i].token = Some(th[i].xid)
                    /\ accessToken' = th'[i].token
                    /\ th'[i].url = th[i].url
               ELSE /\ BeforeThreshold
                    /\ th'[i].token = accessToken
                    /\ exchanges' = exchanges
       /\ (th'[i].pc = "exch" /\ th[i].pc # "exch") =>
            /\ ~BeforeThreshold
            /\ th'[i].nreq = th[i].nreq \/ th'[i].nreq = 0
            /\ exchanges' = exchanges + 1
            /\ th'[i].xid = exchanges']_vars

\* the credential crossed its threshold between two pages: the second
\* page was requested with the token of a second exchange
C29_Witness ==
  /\ th[1].fetchAll /\ th[1].pc = "fetch"
  /\ th[1].nreq = 2 /\ Len(th[1].fetched) = 1 /\ th[1].urls = <<0, 1>>
  /\ th[1].rex = 1 /\ th[1].xid = 2 /\ th[1].token = Some(2)
  /\ exchanges = 2 /\ accessToken = Some(2)

\* what a customer-first lookup shows after the customer lookup c and the
\* vendor lookup v: the lookups issued and completed, and the result
CustomerFirst(c, v) ==
  LET s1 == <<Ev("start", 1), Ev("end", 1)>>
      s2 == s1 \o <<Ev("start", 2), Ev("end", 2)>> IN
  IF c.pc # "done"
  THEN [log |-> <<Ev("start", 1)>>, stage |-> "first", out |-> NoToolOut]
  ELSE IF c.out.kind = "throw"
  THEN [log |-> s1, stage |-> "done", out |-> ErrorOut(c.out.err)]
  ELSE IF Yields(c.out)
  THEN [log |-> s1, stage |-> "done", out |-> Tagged(1, Found(c.out))]
  ELSE IF v.pc # "done"
  THEN [log |-> s1 \o <<Ev("start", 2)>>, stage |-> "second",
        out |-> NoToolOut]
  ELSE IF v.out.kind = "throw"
  THEN [log |-> s2, stage |-> "done", out |-> ErrorOut(v.out.err)]
  ELSE IF Yields(v.out)
  THEN [log |-> s2, stage |-> "done", out |-> Tagged(2, Found(v.out))]
  ELSE [log |-> s2, stage |-> "done", out |-> NotFoundOut]

\* C30: fetch-accounts with an accountNum and entityType omitted or
\* "auto" behaves as with entityType "customer": in all three cases the
\* lookups issued and the result are the same function of what the
\* backend answers, the customer lookup first and the vendor lookup only
\* after a customer lookup that found no record.
C30_AutoIsCustomerFirst ==
  (tool.name = "accounts"
     /\ tool.input \in {Null, Some("auto"), Some("customer")}) =>
    /\ tool.entityType = (IF tool.input = Null THEN "auto" ELSE tool.input[1])
    /\ [log |-> tool.log, stage |-> tool.stage, out |-> tool.out]
         = CustomerFirst(th[1], th[2])
    /\ Position(tool.log, Ev("start", 2)) = 0 => th[2].pc = "idle"

\* entityType omitted, the identifier is a vendor only: the customer
\* lookup, then the vendor lookup, and the vendor match
C30_Witness ==
  /\ tool.name = "accounts" /\ tool.input = Null /\ tool.entityType = "auto"
  /\ tool.stage = "done"
  /\ tool.log = <<Ev("start", 1), Ev("end", 1), Ev("start", 2), Ev("end", 2)>>
  /\ tool.out = Tagged(2, "v1")

====
